---- MODULE Spec2Model ----
(***************************************************************************)
(* Model of the Supabase seeding utility: ConfigLoader, load_json_file,    *)
(* SupabaseClient, run_seeding and the main entry point.                   *)
(***************************************************************************)
EXTENDS Integers, Sequences, FiniteSets, TLC

VARIABLES
    pc,            \* position of the running entry point / caller
    osEnv,         \* os.environ restricted to the two credential variables
    dotenvExists,  \* whether base_path/.env exists
    dotenvVars,    \* the assignments written in the .env file
    fileExists,    \* existence of data/categories.json and data/menu_items.json
    fileContent,   \* token content of the two data files
    configCache,   \* ConfigLoader._config_cache
    dataSets,      \* data_sets handed to run_seeding
    verifyFlag,    \* run_seeding(verify_data=...)
    clearFlag,     \* run_seeding(clear_existing=...)
    hasClient,     \* a SupabaseClient object has been constructed
    client,        \* SupabaseClient._client (NoClient = None, else a handle)
    constructions, \* history of create_client attempts
    getCalls,      \* number of get_client calls made so far
    remote,        \* history of table requests sent to the remote store
    idx,           \* index of the next data set in the insert loop
    success_count, \* run_seeding local
    total_records, \* run_seeding local
    results,       \* per data set: did insert_data return a non-None result
    report,        \* what run_seeding printed as summary / outcome
    exitCode,      \* process exit code (Running while the process runs)
    loaded,        \* results of the load_json_file calls made so far
    ret,           \* outcome of the last SupabaseClient method call
    entry,         \* which caller drives the run
    errorLine      \* the error line the entry point printed, if any

vars == << pc, osEnv, dotenvExists, dotenvVars, fileExists, fileContent,
           configCache, dataSets, verifyFlag, clearFlag, hasClient, client,
           constructions, getCalls, remote, idx, success_count,
           total_records, results, report, exitCode, loaded, ret, entry,
           errorLine >>

(***************************************************************************)
(* Bounds                                                                  *)
(***************************************************************************)
MaxLen == 5        \* longest token content explored for load_json_file
MaxTasks == 2      \* longest data_sets list handed directly to run_seeding
MaxRecords == 2    \* most records in one data set / rows in one select
MaxCalls == 3      \* most SupabaseClient method calls in a free call sequence

(***************************************************************************)
(* JSON reader (src/utils/json_io.py); contents are token sequences        *)
(***************************************************************************)
Tokens == {"[", "]", ",", "1", "{", "}", "n"}

NullVal == [t |-> "null", elems |-> << >>]
NumVal == [t |-> "num", elems |-> << >>]
ObjVal == [t |-> "obj", elems |-> << >>]
ArrVal(es) == [t |-> "arr", elems |-> es]

ParseErr == [ok |-> FALSE, val |-> NullVal, next |-> 0]
ParseOk(v, n) == [ok |-> TRUE, val |-> v, next |-> n]

RECURSIVE ParseValue(_, _)
RECURSIVE ParseElems(_, _, _)

\* one JSON value starting at token i
ParseValue(s, i) ==
    IF i > Len(s) THEN ParseErr
    ELSE IF s[i] = "1" THEN ParseOk(NumVal, i + 1)
    ELSE IF s[i] = "n" THEN ParseOk(NullVal, i + 1)
    ELSE IF s[i] = "{" THEN
        IF i + 1 <= Len(s) /\ s[i + 1] = "}" THEN ParseOk(ObjVal, i + 2)
        ELSE ParseErr
    ELSE IF s[i] = "[" THEN
        IF i + 1 <= Len(s) /\ s[i + 1] = "]" THEN ParseOk(ArrVal(<< >>), i + 2)
        ELSE ParseElems(s, i + 1, << >>)
    ELSE ParseErr

\* variant of ParseElems that loses the last element of an array
ParseElemsDropLast(s, i, acc) ==
    LET r == ParseValue(s, i) IN
    IF ~r.ok THEN ParseErr
    ELSE IF r.next > Len(s) THEN ParseErr
    ELSE IF s[r.next] = "," THEN ParseElems(s, r.next + 1, Append(acc, r.val))
    ELSE IF s[r.next] = "]" THEN ParseOk(ArrVal(acc), r.next + 1)
    ELSE ParseErr

\* the elements of an array whose "[" has been consumed
ParseElems(s, i, acc) ==
    LET r == ParseValue(s, i) IN
    IF ~r.ok THEN ParseErr
    ELSE IF r.next > Len(s) THEN ParseErr
    ELSE IF s[r.next] = "," THEN ParseElems(s, r.next + 1, Append(acc, r.val))
    ELSE IF s[r.next] = "]" THEN ParseOk(ArrVal(Append(acc, r.val)), r.next + 1)
    ELSE ParseErr

\* json.load: one value, then end of input
json_load(s) ==
    LET r == ParseValue(s, 1) IN
    IF r.ok /\ r.next = Len(s) + 1
    THEN [kind |-> "ok", val |-> r.val]
    ELSE [kind |-> "JSONDecodeError", val |-> NullVal]

load_json_file(exists, content) ==
    IF ~exists THEN [kind |-> "FileNotFoundError", val |-> NullVal]
    ELSE json_load(content)

\* len() of a parsed value: -1 stands for the TypeError of len(int)/len(None)
PyLen(v) ==
    IF v.t = "arr" THEN Len(v.elems)
    ELSE IF v.t = "obj" THEN 0
    ELSE -1

(***************************************************************************)
(* Python values used by the model                                         *)
(***************************************************************************)
\* Optional[List[str]]: None or a list
PyNone == [none |-> TRUE, list |-> << >>]
PyList(l) == [none |-> FALSE, list |-> l]
\* truthiness of an Optional[List]: None and [] are falsy
Truthy(x) == ~x.none /\ x.list /= << >>
\* Python's "a or b"
PyOr(a, b) == IF Truthy(a) THEN a ELSE b

InSeq(x, s) == \E k \in 1..Len(s) : s[k] = x

(***************************************************************************)
(* Configuration constants (src/config/constants.py)                       *)
(***************************************************************************)
CATEGORIES == "categories"
MENU_ITEMS == "menu_items"
BREAD_LOCATIONS == "bread_locations"
Tables == {CATEGORIES, MENU_ITEMS, BREAD_LOCATIONS}

VERIFY_LIMIT == 1
TEST_QUERY_TABLE == CATEGORIES
UNKNOWN_CATEGORY == "Unknown"
DEFAULT_VERIFY_DATA == TRUE
DEFAULT_CLEAR_EXISTING == TRUE

\* DB_OPERATIONS['DELETE_CONDITIONS'], keyed here by table name
NoCondition == [present |-> FALSE, condition |-> "", value |-> "", column |-> ""]
DELETE_CONDITIONS(table) ==
    IF table = MENU_ITEMS
    THEN [present |-> TRUE, condition |-> "neq", value |-> "'nonexistent'", column |-> "id"]
    ELSE IF table = CATEGORIES
    THEN [present |-> TRUE, condition |-> "gte", value |-> "0", column |-> "id"]
    ELSE NoCondition

get_table_deletion_order == << MENU_ITEMS, CATEGORIES >>

\* keys of the dict built by get_data_file_paths, in insertion order; each
\* key is written as its words between underscores
FilePathKeys == << <<"data", "dir">>, <<"categories">>, <<"menu", "items">>, <<"env", "file">> >>
KeyCategories == <<"categories">>
KeyMenuItems == <<"menu", "items">>
KeyEnvFile == <<"env", "file">>
\* str.endswith('_file')
EndsWithFile(key) == Len(key) >= 2 /\ key[Len(key)] = "file"

(***************************************************************************)
(* ConfigLoader (src/config/loader.py)                                     *)
(***************************************************************************)
EnvVars == {"SUPABASE_URL", "API_Key"}
required_vars == << "SUPABASE_URL", "API_Key" >>
Unset == "<unset>"
\* variant of HasValue that accepts the empty string
HasValueNotNone(v) == v /= Unset

\* truthiness of os.getenv(var): None and '' are falsy
HasValue(v) == v /= Unset /\ v /= ""

NoEnvVars == [v \in EnvVars |-> Unset]
EmptyCache == [has_env |-> FALSE, env_vars |-> NoEnvVars, has_paths |-> FALSE]

\* load_dotenv (override=False): a variable already in os.environ is kept
load_dotenv(env, exists, file) ==
    IF ~exists THEN env
    ELSE [v \in EnvVars |-> IF env[v] = Unset /\ file[v] /= Unset THEN file[v] ELSE env[v]]

\* first required variable whose value is missing or empty, 0 if none
FirstMissing(env) ==
    IF \E k \in 1..Len(required_vars) : ~HasValue(env[required_vars[k]])
    THEN CHOOSE k \in 1..Len(required_vars) :
            /\ ~HasValue(env[required_vars[k]])
            /\ \A j \in 1..(k - 1) : HasValue(env[required_vars[j]])
    ELSE 0

load_environment_variables(cache, env, exists, file) ==
    IF cache.has_env
    THEN [raised |-> FALSE, env_vars |-> cache.env_vars, cache |-> cache, env |-> env]
    ELSE LET env2 == load_dotenv(env, exists, file) IN
         IF FirstMissing(env2) /= 0
         THEN [raised |-> TRUE, env_vars |-> NoEnvVars, cache |-> cache, env |-> env2]
         ELSE [raised |-> FALSE, env_vars |-> env2,
               cache |-> [cache EXCEPT !.has_env = TRUE, !.env_vars = env2],
               env |-> env2]

get_file_paths(cache) == [cache EXCEPT !.has_paths = TRUE]

\* Path.exists() of the path stored under a key of the file-path dict
PathExists(key, dExists, fExists) ==
    IF key = KeyEnvFile THEN dExists
    ELSE IF key = KeyCategories THEN fExists[CATEGORIES]
    ELSE IF key = KeyMenuItems THEN fExists[MENU_ITEMS]
    ELSE TRUE

\* the loop over file_paths.items(): TRUE iff it raises FileNotFoundError
FileCheckRaises(dExists, fExists) ==
    \E k \in 1..Len(FilePathKeys) :
        /\ EndsWithFile(FilePathKeys[k])
        /\ ~PathExists(FilePathKeys[k], dExists, fExists)
        /\ FilePathKeys[k] /= KeyEnvFile

validate_configuration(cache, env, dExists, file, fExists) ==
    LET e == load_environment_variables(cache, env, dExists, file) IN
    IF e.raised
    THEN [result |-> FALSE, cache |-> e.cache, env |-> e.env]
    ELSE IF FileCheckRaises(dExists, fExists)
    THEN [result |-> FALSE, cache |-> get_file_paths(e.cache), env |-> e.env]
    ELSE [result |-> TRUE, cache |-> get_file_paths(e.cache), env |-> e.env]

get_supabase_config(cache, env, exists, file) ==
    load_environment_variables(cache, env, exists, file)

(***************************************************************************)
(* SupabaseClient (src/supa/supabase_client.py)                            *)
(***************************************************************************)
NoClient == 0

\* SupabaseClient.__init__(config_loader=...): url and key are not passed
SupabaseClientInit(cache, env, dExists, file) ==
    LET c == get_supabase_config(cache, env, dExists, file)
        \* the except branch: load_dotenv() and os.getenv
        env2 == IF c.raised THEN load_dotenv(c.env, dExists, file) ELSE c.env
        url == IF c.raised THEN env2["SUPABASE_URL"] ELSE c.env_vars["SUPABASE_URL"]
        key == IF c.raised THEN env2["API_Key"] ELSE c.env_vars["API_Key"]
    IN  [raised |-> ~HasValue(url) \/ ~HasValue(key), cache |-> c.cache, env |-> env2]

\* outcomes of one create_client call
CreateOutcomes == {"ok", "proxy", "other"}
\* create_client is only called while no connection is cached
PrimaryInputs(cl) == IF cl = NoClient THEN CreateOutcomes ELSE {"ok"}
ReducedInputs(cl) == IF cl = NoClient THEN CreateOutcomes ELSE {"ok"}
Construction(call, opts, result) == [call |-> call, opts |-> opts, result |-> result]

\* get_client; primary / reduced are the outcomes the two create_client
\* calls would have, done the constructions made before this call,
\* call the number of this get_client call.  A handle is the position of
\* the create_client call that returned it.
\* variant of get_client without the "is None" test
get_client_always_reconnect(cl, primary, reduced, done, call) ==
    IF primary = "ok"
    THEN [raised |-> FALSE, client |-> done + 1,
          attempts |-> << Construction(call, "primary", "ok") >>]
    ELSE [raised |-> TRUE, client |-> NoClient,
          attempts |-> << Construction(call, "primary", primary) >>]

\* variant of get_client that falls back on any primary error
get_client_retry_any(cl, primary, reduced, done, call) ==
    IF cl /= NoClient
    THEN [raised |-> FALSE, client |-> cl, attempts |-> << >>]
    ELSE IF primary = "ok"
    THEN [raised |-> FALSE, client |-> done + 1,
          attempts |-> << Construction(call, "primary", "ok") >>]
    ELSE [raised |-> reduced /= "ok",
          client |-> IF reduced = "ok" THEN done + 2 ELSE NoClient,
          attempts |-> << Construction(call, "primary", primary),
                          Construction(call, "reduced", reduced) >>]

get_client(cl, primary, reduced, done, call) ==
    IF cl /= NoClient
    THEN [raised |-> FALSE, client |-> cl, attempts |-> << >>]
    ELSE IF primary = "ok"
    THEN [raised |-> FALSE, client |-> done + 1,
          attempts |-> << Construction(call, "primary", "ok") >>]
    ELSE IF primary = "proxy"
    THEN [raised |-> reduced /= "ok",
          client |-> IF reduced = "ok" THEN done + 2 ELSE NoClient,
          attempts |-> << Construction(call, "primary", primary),
                          Construction(call, "reduced", reduced) >>]
    ELSE [raised |-> TRUE, client |-> NoClient,
          attempts |-> << Construction(call, "primary", primary) >>]

\* requests sent through the connection
SelectCall(table, limit, ok, n) ==
    [op |-> "select", table |-> table, ok |-> ok, limit |-> limit, n |-> n,
     cmp |-> "", col |-> "", val |-> ""]
DeleteCall(table, cmp, col, val, ok) ==
    [op |-> "delete", table |-> table, ok |-> ok, limit |-> 0, n |-> 0,
     cmp |-> cmp, col |-> col, val |-> val]
InsertCall(table, n, ok) ==
    [op |-> "insert", table |-> table, ok |-> ok, limit |-> 0, n |-> n,
     cmp |-> "", col |-> "", val |-> ""]

_get_delete_condition(table_name) == DELETE_CONDITIONS(table_name)

\* the request clear_tables builds for one table
DeleteRequest(table_name, ok) ==
    LET delete_condition == _get_delete_condition(table_name) IN
    IF delete_condition.present
    THEN DeleteCall(table_name, "neq", delete_condition.column, delete_condition.value, ok)
    ELSE DeleteCall(table_name, "neq", "id", "'nonexistent'", ok)

\* the for loop of clear_tables from position k on; failing is the set of
\* tables whose delete raises.  Returns the requests issued.
RECURSIVE ClearLoop(_, _, _, _)
ClearLoop(order, k, table_names, failing) ==
    IF k > Len(order) THEN << >>
    ELSE IF ~table_names.none /\ ~InSeq(order[k], table_names.list)
    THEN ClearLoop(order, k + 1, table_names, failing)
    ELSE IF order[k] \in failing
    THEN << DeleteRequest(order[k], FALSE) >>
    ELSE << DeleteRequest(order[k], TRUE) >> \o ClearLoop(order, k + 1, table_names, failing)

\* the order clear_tables iterates in
ClearOrder(table_names, deletion_order) ==
    IF table_names.none
    THEN PyOr(deletion_order, PyList(get_table_deletion_order)).list
    ELSE PyOr(deletion_order, table_names).list

\* clear_tables: g is the result of its get_client call
clear_tables(g, table_names, deletion_order, failing) ==
    IF g.raised
    THEN [requests |-> << >>, warned |-> TRUE, raised |-> FALSE]
    ELSE LET reqs == ClearLoop(ClearOrder(table_names, deletion_order), 1, table_names, failing) IN
         [requests |-> reqs,
          warned |-> \E k \in 1..Len(reqs) : ~reqs[k].ok,
          raised |-> FALSE]

\* variant of test_connection that reports success whatever happened
test_connection_ignore_failure(g, test_table, selectOk) ==
    IF g.raised
    THEN [requests |-> << >>, value |-> TRUE]
    ELSE [requests |-> << SelectCall(IF test_table = "" THEN TEST_QUERY_TABLE ELSE test_table,
                                     VERIFY_LIMIT, selectOk, 0) >>,
          value |-> TRUE]

\* test_connection: returns a bool, never raises
test_connection(g, test_table, selectOk) ==
    IF g.raised
    THEN [requests |-> << >>, value |-> FALSE]
    ELSE [requests |-> << SelectCall(IF test_table = "" THEN TEST_QUERY_TABLE ELSE test_table,
                                     VERIFY_LIMIT, selectOk, 0) >>,
          value |-> selectOk]

\* description = description or table_name ("" stands for None)
DescriptionOf(table_name, description) ==
    IF description = "" THEN table_name ELSE description

\* variant of insert_data that hands back the submitted data when the
\* request raised
insert_data_returns_data(g, table_name, data, description, insertOk) ==
    IF g.raised
    THEN [requests |-> << >>, is_none |-> TRUE, rows |-> 0,
          log |-> DescriptionOf(table_name, description)]
    ELSE [requests |-> << InsertCall(table_name, PyLen(data), insertOk) >>,
          is_none |-> FALSE,
          rows |-> PyLen(data),
          log |-> DescriptionOf(table_name, description)]

\* insert_data: one insert request carrying all of data; is_none tells
\* whether it returned None, rows is the length of the result.data it
\* returned (the store answers an insert with the rows it inserted), log
\* the description in the line it printed
insert_data(g, table_name, data, description, insertOk) ==
    IF g.raised
    THEN [requests |-> << >>, is_none |-> TRUE, rows |-> 0,
          log |-> DescriptionOf(table_name, description)]
    ELSE [requests |-> << InsertCall(table_name, PyLen(data), insertOk) >>,
          is_none |-> ~insertOk,
          rows |-> IF insertOk THEN PyLen(data) ELSE 0,
          log |-> DescriptionOf(table_name, description)]

\* a returned row: its category, or no category key at all
Row(has, category) == [has |-> has, category |-> category]
\* variant of CategoryOf without the default label
CategoryOfNoDefault(item) == item.category

\* item.get('category', DEFAULTS['UNKNOWN_CATEGORY'])
CategoryOf(item) == IF item.has THEN item.category ELSE UNKNOWN_CATEGORY

\* _show_category_breakdown: the dict category_counts as a sequence of
\* [category, count] entries in insertion order
RECURSIVE CategoryCounts(_, _, _)
CategoryCounts(menu_items_data, k, acc) ==
    IF k > Len(menu_items_data) THEN acc
    ELSE LET category == CategoryOf(menu_items_data[k]) IN
         IF \E j \in 1..Len(acc) : acc[j].category = category
         THEN CategoryCounts(menu_items_data, k + 1,
                [j \in 1..Len(acc) |->
                    IF acc[j].category = category
                    THEN [acc[j] EXCEPT !.count = @ + 1] ELSE acc[j]])
         ELSE CategoryCounts(menu_items_data, k + 1,
                Append(acc, [category |-> category, count |-> 1]))

_show_category_breakdown(menu_items_data) == CategoryCounts(menu_items_data, 1, << >>)

\* position of the first table of names whose select raises, 0 if none
FirstFailing(names, failing) ==
    IF \E k \in 1..Len(names) : names[k] \in failing
    THEN CHOOSE k \in 1..Len(names) :
            names[k] \in failing /\ \A j \in 1..(k - 1) : names[j] \notin failing
    ELSE 0

\* variant of verify_data that keeps the counts obtained before a failure
verify_data_keep_counts(g, table_names, show_category_breakdown, rowsOf, failing) ==
    IF g.raised
    THEN [requests |-> << >>, counts |-> << >>, breakdowns |-> << >>, failed |-> TRUE]
    ELSE LET names == IF table_names.none THEN << CATEGORIES, MENU_ITEMS >>
                      ELSE table_names.list
             ff == FirstFailing(names, failing)
             last == IF ff = 0 THEN Len(names) ELSE ff
             done == IF ff = 0 THEN names ELSE SubSeq(names, 1, ff - 1)
             IsMenu(t) == t = MENU_ITEMS
         IN  [requests |-> [k \in 1..last |->
                              SelectCall(names[k], 0, k /= ff,
                                         IF k /= ff THEN Len(rowsOf[names[k]]) ELSE 0)],
              counts |-> [t \in {done[k] : k \in 1..Len(done)} |-> Len(rowsOf[t])],
              breakdowns |-> IF show_category_breakdown
                             THEN [k \in 1..Len(SelectSeq(done, IsMenu)) |->
                                      _show_category_breakdown(rowsOf[MENU_ITEMS])]
                             ELSE << >>,
              failed |-> ff /= 0]

\* verify_data: rowsOf[t] is what a full select of t returns, failing the
\* tables whose select raises
verify_data(g, table_names, show_category_breakdown, rowsOf, failing) ==
    IF g.raised
    THEN [requests |-> << >>, counts |-> << >>, breakdowns |-> << >>, failed |-> TRUE]
    ELSE LET names == IF table_names.none THEN << CATEGORIES, MENU_ITEMS >>
                      ELSE table_names.list
             ff == FirstFailing(names, failing)
             last == IF ff = 0 THEN Len(names) ELSE ff
             done == IF ff = 0 THEN names ELSE SubSeq(names, 1, ff - 1)
             IsMenu(t) == t = MENU_ITEMS
         IN  [requests |-> [k \in 1..last |->
                              SelectCall(names[k], 0, k /= ff,
                                         IF k /= ff THEN Len(rowsOf[names[k]]) ELSE 0)],
              counts |-> IF ff = 0
                         THEN [t \in {names[k] : k \in 1..Len(names)} |-> Len(rowsOf[t])]
                         ELSE << >>,
              breakdowns |-> IF show_category_breakdown
                             THEN [k \in 1..Len(SelectSeq(done, IsMenu)) |->
                                      _show_category_breakdown(rowsOf[MENU_ITEMS])]
                             ELSE << >>,
              failed |-> ff /= 0]

(***************************************************************************)
(* State shared by the specifications                                      *)
(***************************************************************************)
Running == -1
DataFiles == {CATEGORIES, MENU_ITEMS}
NoReport == [aborted |-> FALSE, summary |-> FALSE, success |-> 0, total |-> 0,
             records |-> 0, outcome |-> "none", failed_count |-> 0, at |-> 0]
NoRet == [method |-> "", value |-> FALSE, is_none |-> FALSE, rows |-> 0,
          counts |-> << >>, breakdowns |-> << >>, warned |-> FALSE,
          table_names |-> PyNone, deletion_order |-> PyNone,
          log |-> "", table |-> "", submitted |-> 0, description |-> "",
          show |-> FALSE,
          menu_rows |-> << >>, other_rows |-> 0]
DataSet(table_name, data, description) ==
    [table_name |-> table_name, data |-> data, description |-> description]
TableNamesOf(data_sets) == [k \in 1..Len(data_sets) |-> data_sets[k].table_name]
TableSetOf(data_sets) == {data_sets[k].table_name : k \in 1..Len(data_sets)}

\* a list of n records
Records(n) == ArrVal([k \in 1..n |-> ObjVal])
\* get_initial_bread_locations(): eight hardcoded records
BreadLocationCount == 8
get_initial_bread_locations == Records(BreadLocationCount)

\* the row lists used while a whole run is explored
RunRowLists == {<< >>, << Row(TRUE, "Bread") >>, << Row(FALSE, ""), Row(TRUE, "Bread") >>}

InitRun ==
    /\ configCache = EmptyCache
    /\ hasClient = FALSE
    /\ client = NoClient
    /\ constructions = << >>
    /\ getCalls = 0
    /\ remote = << >>
    /\ idx = 1
    /\ success_count = 0
    /\ total_records = 0
    /\ results = << >>
    /\ report = NoReport
    /\ exitCode = Running
    /\ loaded = << >>
    /\ ret = NoRet
    /\ errorLine = "none"

world == << dotenvExists, dotenvVars, fileExists, fileContent >>
seedLocals == << idx, success_count, total_records, results, report >>
process == << exitCode, errorLine, loaded, entry >>
seedArgs == << dataSets, verifyFlag, clearFlag >>
config == << osEnv, configCache >>

(***************************************************************************)
(* run_seeding (src/supa/seed_database.py), one action per step            *)
(***************************************************************************)
\* supabase_client = SupabaseClient(config_loader=config_loader)
SeedConstruct ==
    /\ pc = "seed_init"
    /\ LET r == SupabaseClientInit(configCache, osEnv, dotenvExists, dotenvVars) IN
        /\ osEnv' = r.env
        /\ configCache' = r.cache
        /\ hasClient' = ~r.raised
        /\ IF ~r.raised
           THEN pc' = "seed_test" /\ UNCHANGED << exitCode, errorLine >>
           ELSE IF entry = "direct"
           THEN pc' = "seed_raised" /\ UNCHANGED << exitCode, errorLine >>
           ELSE /\ pc' = "exited"
                /\ exitCode' = 1
                /\ errorLine' = IF entry = "main" THEN "unexpected" ELSE "bread_error"
    /\ UNCHANGED << world, seedArgs, seedLocals, client, constructions, getCalls,
                    remote, loaded, entry, ret >>

\* if not supabase_client.test_connection(): return
SeedTest ==
    /\ pc = "seed_test"
    /\ \E primary \in PrimaryInputs(client), reduced \in ReducedInputs(client), selectOk \in BOOLEAN :
        LET g == get_client(client, primary, reduced, Len(constructions), getCalls + 1)
            t == test_connection(g, "", selectOk)
        IN  /\ client' = g.client
            /\ constructions' = constructions \o g.attempts
            /\ getCalls' = getCalls + 1
            /\ remote' = remote \o t.requests
            /\ ret' = [NoRet EXCEPT !.method = "test_connection", !.value = t.value]
            /\ IF t.value
               THEN /\ pc' = IF clearFlag THEN "seed_clear" ELSE "seed_insert"
                    /\ report' = report
               ELSE /\ pc' = "seed_done"
                    /\ report' = [report EXCEPT !.aborted = TRUE]
    /\ UNCHANGED << world, config, seedArgs, hasClient, idx, success_count,
                    total_records, results, process >>

\* if clear_existing: supabase_client.clear_tables(table_names=table_names)
SeedClear ==
    /\ pc = "seed_clear"
    /\ \E primary \in PrimaryInputs(client), reduced \in ReducedInputs(client),
          failing \in SUBSET TableSetOf(dataSets) :
        LET g == get_client(client, primary, reduced, Len(constructions), getCalls + 1)
            c == clear_tables(g, PyList(TableNamesOf(dataSets)), PyNone, failing)
        IN  /\ client' = g.client
            /\ constructions' = constructions \o g.attempts
            /\ getCalls' = getCalls + 1
            /\ remote' = remote \o c.requests
            /\ ret' = [NoRet EXCEPT !.method = "clear_tables", !.warned = c.warned,
                                    !.table_names = PyList(TableNamesOf(dataSets))]
    /\ pc' = "seed_insert"
    /\ UNCHANGED << world, config, seedArgs, hasClient, seedLocals, process >>

\* variant of SeedInsert that leaves the loop at the first failed insert
SeedInsertBreakOnFailure ==
    /\ pc = "seed_insert"
    /\ idx <= Len(dataSets)
    /\ \E primary \in PrimaryInputs(client), reduced \in ReducedInputs(client), insertOk \in BOOLEAN :
        LET g == get_client(client, primary, reduced, Len(constructions), getCalls + 1)
            data_set == dataSets[idx]
            r == insert_data(g, data_set.table_name, data_set.data,
                             data_set.description, insertOk)
        IN  /\ client' = g.client
            /\ constructions' = constructions \o g.attempts
            /\ getCalls' = getCalls + 1
            /\ remote' = remote \o r.requests
            /\ ret' = [NoRet EXCEPT !.method = "insert_data", !.is_none = r.is_none,
                                    !.rows = r.rows, !.log = r.log]
            /\ results' = Append(results, ~r.is_none)
            /\ success_count' = IF ~r.is_none THEN success_count + 1 ELSE success_count
            /\ total_records' = IF ~r.is_none THEN total_records + PyLen(data_set.data)
                                ELSE total_records
    /\ idx' = IF ret'.is_none THEN Len(dataSets) + 1 ELSE idx + 1
    /\ pc' = "seed_insert"
    /\ UNCHANGED << world, config, seedArgs, hasClient, report, process >>

\* variant of SeedInsert that counts the records of failed inserts too
SeedInsertCountAll ==
    /\ pc = "seed_insert"
    /\ idx <= Len(dataSets)
    /\ \E primary \in PrimaryInputs(client), reduced \in ReducedInputs(client), insertOk \in BOOLEAN :
        LET g == get_client(client, primary, reduced, Len(constructions), getCalls + 1)
            data_set == dataSets[idx]
            r == insert_data(g, data_set.table_name, data_set.data,
                             data_set.description, insertOk)
        IN  /\ client' = g.client
            /\ constructions' = constructions \o g.attempts
            /\ getCalls' = getCalls + 1
            /\ remote' = remote \o r.requests
            /\ ret' = [NoRet EXCEPT !.method = "insert_data", !.is_none = r.is_none,
                                    !.rows = r.rows, !.log = r.log]
            /\ results' = Append(results, ~r.is_none)
            /\ success_count' = IF ~r.is_none THEN success_count + 1 ELSE success_count
            /\ total_records' = total_records + PyLen(data_set.data)
    /\ idx' = idx + 1
    /\ pc' = "seed_insert"
    /\ UNCHANGED << world, config, seedArgs, hasClient, report, process >>

\* one iteration of "for data_set in data_sets"
SeedInsert ==
    /\ pc = "seed_insert"
    /\ idx <= Len(dataSets)
    /\ \E primary \in PrimaryInputs(client), reduced \in ReducedInputs(client), insertOk \in BOOLEAN :
        LET g == get_client(client, primary, reduced, Len(constructions), getCalls + 1)
            data_set == dataSets[idx]
            r == insert_data(g, data_set.table_name, data_set.data,
                             data_set.description, insertOk)
        IN  /\ client' = g.client
            /\ constructions' = constructions \o g.attempts
            /\ getCalls' = getCalls + 1
            /\ remote' = remote \o r.requests
            /\ ret' = [NoRet EXCEPT !.method = "insert_data", !.is_none = r.is_none,
                                    !.rows = r.rows, !.log = r.log]
            /\ results' = Append(results, ~r.is_none)
            /\ success_count' = IF ~r.is_none THEN success_count + 1 ELSE success_count
            /\ total_records' = IF ~r.is_none THEN total_records + PyLen(data_set.data)
                                ELSE total_records
    /\ idx' = idx + 1
    /\ pc' = "seed_insert"
    /\ UNCHANGED << world, config, seedArgs, hasClient, report, process >>

\* variant of SeedSummary that clears the tables once more after the inserts
SeedSummaryClearAgain ==
    /\ pc = "seed_insert"
    /\ idx > Len(dataSets)
    /\ report' = [report EXCEPT !.summary = TRUE, !.success = success_count,
                                !.total = Len(dataSets), !.records = total_records,
                                !.at = Len(remote)]
    /\ pc' = IF clearFlag /\ ~report.summary THEN "seed_clear"
             ELSE IF verifyFlag /\ success_count > 0 THEN "seed_verify"
             ELSE "seed_outcome"
    /\ UNCHANGED << world, config, seedArgs, hasClient, client, constructions, getCalls,
                    remote, idx, success_count, total_records, results, process, ret >>

\* variant of SeedSummary that verifies whenever the flag is set
SeedSummaryVerifyAlways ==
    /\ pc = "seed_insert"
    /\ idx > Len(dataSets)
    /\ report' = [report EXCEPT !.summary = TRUE, !.success = success_count,
                                !.total = Len(dataSets), !.records = total_records,
                                !.at = Len(remote)]
    /\ pc' = IF verifyFlag THEN "seed_verify" ELSE "seed_outcome"
    /\ UNCHANGED << world, config, seedArgs, hasClient, client, constructions, getCalls,
                    remote, idx, success_count, total_records, results, process, ret >>

\* the summary lines printed after the loop; report.at is the number of
\* requests sent when they are printed
SeedSummary ==
    /\ pc = "seed_insert"
    /\ idx > Len(dataSets)
    /\ report' = [report EXCEPT !.summary = TRUE, !.success = success_count,
                                !.total = Len(dataSets), !.records = total_records,
                                !.at = Len(remote)]
    /\ pc' = IF verifyFlag /\ success_count > 0 THEN "seed_verify" ELSE "seed_outcome"
    /\ UNCHANGED << world, config, seedArgs, hasClient, client, constructions, getCalls,
                    remote, idx, success_count, total_records, results, process, ret >>

\* supabase_client.verify_data(table_names=verified_table_names)
SeedVerify ==
    /\ pc = "seed_verify"
    /\ \E primary \in PrimaryInputs(client), reduced \in ReducedInputs(client),
          rows \in RunRowLists, failing \in SUBSET TableSetOf(dataSets) :
        LET g == get_client(client, primary, reduced, Len(constructions), getCalls + 1)
            v == verify_data(g, PyList(TableNamesOf(dataSets)), TRUE,
                             [t \in Tables |-> rows], failing)
        IN  /\ client' = g.client
            /\ constructions' = constructions \o g.attempts
            /\ getCalls' = getCalls + 1
            /\ remote' = remote \o v.requests
            /\ ret' = [NoRet EXCEPT !.method = "verify_data", !.counts = v.counts,
                                    !.breakdowns = v.breakdowns, !.value = ~v.failed,
                                    !.table_names = PyList(TableNamesOf(dataSets))]
    /\ pc' = "seed_outcome"
    /\ UNCHANGED << world, config, seedArgs, hasClient, seedLocals, process >>

\* the final success / partial-failure line
SeedOutcome ==
    /\ pc = "seed_outcome"
    /\ report' = IF success_count = Len(dataSets)
                 THEN [report EXCEPT !.outcome = "completed"]
                 ELSE [report EXCEPT !.outcome = "failed",
                                     !.failed_count = Len(dataSets) - success_count]
    /\ pc' = "seed_done"
    /\ UNCHANGED << world, config, seedArgs, hasClient, client, constructions, getCalls,
                    remote, idx, success_count, total_records, results, process, ret >>

NextSeed ==
    \/ SeedConstruct
    \/ SeedTest
    \/ SeedClear
    \/ SeedInsert
    \/ SeedSummary
    \/ SeedVerify
    \/ SeedOutcome

(***************************************************************************)
(* Entry points (src/main.py, src/seed_bread_locations.py)                 *)
(***************************************************************************)
EnvValues == {Unset, "", "v"}
\* contents of a data file explored for whole runs
MainContents ==
    { << "[", "]" >>,
      << "[", "{", "}", "]" >>,
      << "[", "{", "}", ",", "{", "}", "]" >>,
      << "{", "}" >>,
      << "1" >>,
      << "[", "1" >> }

\* variant of MainValidate that goes on after a failed validation
MainValidateNoExit ==
    /\ pc = "start"
    /\ entry = "main"
    /\ LET v == validate_configuration(configCache, osEnv, dotenvExists, dotenvVars, fileExists) IN
        /\ osEnv' = v.env
        /\ configCache' = v.cache
    /\ pc' = "main_load"
    /\ UNCHANGED << world, seedArgs, hasClient, client, constructions, getCalls, remote,
                    seedLocals, loaded, entry, ret, exitCode, errorLine >>

\* main(): config_loader.validate_configuration(), sys.exit(1) when False
MainValidate ==
    /\ pc = "start"
    /\ entry = "main"
    /\ LET v == validate_configuration(configCache, osEnv, dotenvExists, dotenvVars, fileExists) IN
        /\ osEnv' = v.env
        /\ configCache' = v.cache
        /\ IF v.result
           THEN pc' = "main_load" /\ UNCHANGED << exitCode, errorLine >>
           ELSE pc' = "exited" /\ exitCode' = 1 /\ errorLine' = "config"
    /\ UNCHANGED << world, seedArgs, hasClient, client, constructions, getCalls, remote,
                    seedLocals, loaded, entry, ret >>

ErrorLineOf(kind) ==
    IF kind = "FileNotFoundError" THEN "file_not_found"
    ELSE IF kind = "JSONDecodeError" THEN "json"
    ELSE "unexpected"

\* main(): the two load_json_file calls, the len() prints and data_sets
MainLoad ==
    /\ pc = "main_load"
    /\ LET c == load_json_file(fileExists[CATEGORIES], fileContent[CATEGORIES])
           m == load_json_file(fileExists[MENU_ITEMS], fileContent[MENU_ITEMS])
       IN  /\ configCache' = get_file_paths(configCache)
           /\ IF c.kind /= "ok"
              THEN /\ loaded' = << c >>
                   /\ pc' = "exited" /\ exitCode' = 1 /\ errorLine' = ErrorLineOf(c.kind)
                   /\ UNCHANGED seedArgs
              ELSE IF m.kind /= "ok"
              THEN /\ loaded' = << c, m >>
                   /\ pc' = "exited" /\ exitCode' = 1 /\ errorLine' = ErrorLineOf(m.kind)
                   /\ UNCHANGED seedArgs
              ELSE IF PyLen(c.val) < 0 \/ PyLen(m.val) < 0
              THEN /\ loaded' = << c, m >>
                   /\ pc' = "exited" /\ exitCode' = 1 /\ errorLine' = ErrorLineOf("TypeError")
                   /\ UNCHANGED seedArgs
              ELSE /\ loaded' = << c, m >>
                   /\ dataSets' = << DataSet(CATEGORIES, c.val, "categories"),
                                     DataSet(MENU_ITEMS, m.val, "menu items") >>
                   /\ verifyFlag' = DEFAULT_VERIFY_DATA
                   /\ clearFlag' = DEFAULT_CLEAR_EXISTING
                   /\ pc' = "seed_init"
                   /\ UNCHANGED << exitCode, errorLine >>
    /\ UNCHANGED << world, osEnv, hasClient, client, constructions, getCalls, remote,
                    seedLocals, entry, ret >>

\* seed_bread_locations.main(): the hardcoded data set
BreadMain ==
    /\ pc = "start"
    /\ entry = "bread"
    /\ dataSets' = << DataSet(BREAD_LOCATIONS, get_initial_bread_locations, "bread locations") >>
    /\ verifyFlag' = TRUE
    /\ clearFlag' = TRUE
    /\ pc' = "seed_init"
    /\ UNCHANGED << world, config, hasClient, client, constructions, getCalls, remote,
                    seedLocals, process, ret >>

\* variant of EntryReturn whose exit code follows the seeding outcome
EntryReturnByOutcome ==
    /\ pc = "seed_done"
    /\ entry \in {"main", "bread"}
    /\ exitCode' = IF report.outcome = "completed" THEN 0 ELSE 1
    /\ pc' = "exited"
    /\ UNCHANGED << world, config, seedArgs, hasClient, client, constructions, getCalls,
                    remote, seedLocals, errorLine, loaded, entry, ret >>

\* run_seeding returned: the entry point ends with exit code 0
EntryReturn ==
    /\ pc = "seed_done"
    /\ entry \in {"main", "bread"}
    /\ exitCode' = 0
    /\ pc' = "exited"
    /\ UNCHANGED << world, config, seedArgs, hasClient, client, constructions, getCalls,
                    remote, seedLocals, errorLine, loaded, entry, ret >>

Init ==
    /\ InitRun
    /\ pc = "start"
    /\ entry \in {"main", "bread"}
    /\ osEnv \in [EnvVars -> EnvValues]
    /\ dotenvExists \in BOOLEAN
    /\ dotenvVars \in [EnvVars -> {Unset, "v"}]
    /\ ~dotenvExists => dotenvVars = NoEnvVars
    /\ fileExists \in [DataFiles -> BOOLEAN]
    /\ fileContent \in [DataFiles -> MainContents \cup {<< >>}]
    /\ \A f \in DataFiles : fileExists[f] <=> fileContent[f] /= << >>
    /\ entry = "bread" => \A f \in DataFiles : ~fileExists[f]
    /\ dataSets = << >>
    /\ verifyFlag = TRUE
    /\ clearFlag = TRUE

Next ==
    \/ MainValidate
    \/ MainLoad
    \/ BreadMain
    \/ EntryReturn
    \/ NextSeed

Spec == Init /\ [][Next]_vars

(***************************************************************************)
(* run_seeding called directly with arbitrary data sets and flags          *)
(***************************************************************************)
RECURSIVE SeqsUpTo(_, _)
SeqsUpTo(S, n) ==
    IF n = 0 THEN {<< >>}
    ELSE LET shorter == SeqsUpTo(S, n - 1) IN
         shorter \cup {Append(q, x) : q \in {r \in shorter : Len(r) = n - 1},
                                      x \in S}

NoRepeat(q) == \A a, b \in 1..Len(q) : a /= b => q[a] /= q[b]

\* data_sets: up to MaxTasks tasks on distinct tables, 1..MaxRecords records each
SeedTaskLists ==
    UNION { { [k \in 1..Len(q) |-> DataSet(q[k], Records(sz[k]), q[k])] :
                sz \in [1..Len(q) -> 1..MaxRecords] } :
            q \in {r \in SeqsUpTo(Tables, MaxTasks) : NoRepeat(r)} }

InitSeed ==
    /\ InitRun
    /\ pc = "seed_init"
    /\ entry = "direct"
    /\ osEnv \in [EnvVars -> {Unset, "v"}]
    /\ dotenvExists = FALSE
    /\ dotenvVars = NoEnvVars
    /\ fileExists = [f \in DataFiles |-> FALSE]
    /\ fileContent = [f \in DataFiles |-> << >>]
    /\ dataSets \in SeedTaskLists
    /\ verifyFlag \in BOOLEAN
    /\ clearFlag \in BOOLEAN

SpecSeed == InitSeed /\ [][NextSeed]_vars

(***************************************************************************)
(* Calls made directly on one SupabaseClient object                        *)
(***************************************************************************)
InitClient ==
    /\ InitRun
    /\ pc = "client_ready"
    /\ entry = "client"
    /\ osEnv = [v \in EnvVars |-> "v"]
    /\ dotenvExists = FALSE
    /\ dotenvVars = NoEnvVars
    /\ fileExists = [f \in DataFiles |-> FALSE]
    /\ fileContent = [f \in DataFiles |-> << >>]
    /\ dataSets = << >>
    /\ verifyFlag = TRUE
    /\ clearFlag = TRUE

clientFrame == << world, config, seedArgs, seedLocals, process, pc >>

CallTestConnection(maxCalls) ==
    /\ pc = "client_ready"
    /\ getCalls < maxCalls
    /\ \E primary \in PrimaryInputs(client), reduced \in ReducedInputs(client), selectOk \in BOOLEAN :
        LET g == get_client(client, primary, reduced, Len(constructions), getCalls + 1)
            t == test_connection(g, "", selectOk)
        IN  /\ client' = g.client
            /\ constructions' = constructions \o g.attempts
            /\ getCalls' = getCalls + 1
            /\ remote' = remote \o t.requests
            /\ ret' = [NoRet EXCEPT !.method = "test_connection", !.value = t.value]
    /\ hasClient' = TRUE
    /\ UNCHANGED clientFrame

CallClearTables(maxCalls, TN, DO) ==
    /\ pc = "client_ready"
    /\ getCalls < maxCalls
    /\ \E primary \in PrimaryInputs(client), reduced \in ReducedInputs(client),
          table_names \in TN, deletion_order \in DO, failing \in SUBSET Tables :
        LET g == get_client(client, primary, reduced, Len(constructions), getCalls + 1)
            c == clear_tables(g, table_names, deletion_order, failing)
        IN  /\ client' = g.client
            /\ constructions' = constructions \o g.attempts
            /\ getCalls' = getCalls + 1
            /\ remote' = remote \o c.requests
            /\ ret' = [NoRet EXCEPT !.method = "clear_tables", !.warned = c.warned,
                                    !.table_names = table_names,
                                    !.deletion_order = deletion_order]
    /\ hasClient' = TRUE
    /\ UNCHANGED clientFrame

CallInsertData(maxCalls, TBL, sizes, DESC) ==
    /\ pc = "client_ready"
    /\ getCalls < maxCalls
    /\ \E primary \in PrimaryInputs(client), reduced \in ReducedInputs(client),
          table_name \in TBL, n \in sizes, description \in DESC, insertOk \in BOOLEAN :
        LET g == get_client(client, primary, reduced, Len(constructions), getCalls + 1)
            r == insert_data(g, table_name, Records(n), description, insertOk)
        IN  /\ client' = g.client
            /\ constructions' = constructions \o g.attempts
            /\ getCalls' = getCalls + 1
            /\ remote' = remote \o r.requests
            /\ ret' = [NoRet EXCEPT !.method = "insert_data", !.is_none = r.is_none,
                                    !.rows = r.rows, !.log = r.log,
                                    !.table = table_name, !.submitted = n,
                                    !.description = description]
    /\ hasClient' = TRUE
    /\ UNCHANGED clientFrame

CallVerifyData(maxCalls, TN, RL, OT) ==
    /\ pc = "client_ready"
    /\ getCalls < maxCalls
    /\ \E primary \in PrimaryInputs(client), reduced \in ReducedInputs(client),
          table_names \in TN, menuRows \in RL, others \in OT,
          show \in BOOLEAN, failing \in SUBSET {CATEGORIES, MENU_ITEMS} :
        LET g == get_client(client, primary, reduced, Len(constructions), getCalls + 1)
            rowsOf == [t \in Tables |-> IF t = MENU_ITEMS THEN menuRows
                                        ELSE [k \in 1..others |-> Row(FALSE, "")]]
            v == verify_data(g, table_names, show, rowsOf, failing)
        IN  /\ client' = g.client
            /\ constructions' = constructions \o g.attempts
            /\ getCalls' = getCalls + 1
            /\ remote' = remote \o v.requests
            /\ ret' = [NoRet EXCEPT !.method = "verify_data", !.counts = v.counts,
                                    !.breakdowns = v.breakdowns, !.value = ~v.failed,
                                    !.table_names = table_names, !.show = show,
                                    !.menu_rows = menuRows, !.other_rows = others]
    /\ hasClient' = TRUE
    /\ UNCHANGED clientFrame

\* any sequence of up to MaxCalls method calls, with a few arguments each
NextClient ==
    \/ CallTestConnection(MaxCalls)
    \/ CallClearTables(MaxCalls, {PyNone, PyList(<< CATEGORIES, MENU_ITEMS >>)}, {PyNone})
    \/ CallInsertData(MaxCalls, {CATEGORIES}, {1}, {""})
    \/ CallVerifyData(MaxCalls, {PyNone}, {<< Row(TRUE, "Bread") >>}, {1})

SpecClient == InitClient /\ [][NextClient]_vars

\* one clear_tables call on a fresh object, with every argument combination
ListArgs == {PyNone} \cup {PyList(q) : q \in SeqsUpTo(Tables, MaxTasks)}

NextClear == CallClearTables(1, ListArgs, ListArgs)

SpecClear == InitClient /\ [][NextClear]_vars

\* up to two insert_data calls on a fresh object, with every table, every
\* record count up to MaxRecords and with or without a description
NextInsert == CallInsertData(2, Tables, 0..MaxRecords, {"", "label"})

SpecInsert == InitClient /\ [][NextInsert]_vars

\* one verify_data call on a fresh object: every table list, every row list
\* of up to MaxRecords rows for menu_items
RowValues == {Row(TRUE, "Bread"), Row(TRUE, "Drinks"), Row(FALSE, "")}
RowLists == UNION {[1..n -> RowValues] : n \in 0..MaxRecords}

NextVerify == CallVerifyData(1, ListArgs, RowLists, 0..MaxRecords)

SpecVerify == InitClient /\ [][NextVerify]_vars

(***************************************************************************)
(* load_json_file applied to every token content up to MaxLen              *)
(***************************************************************************)
Contents == UNION {[1..n -> Tokens] : n \in 0..MaxLen}

InitJson ==
    /\ InitRun
    /\ pc = "json_start"
    /\ entry = "json"
    /\ osEnv = NoEnvVars
    /\ dotenvExists = FALSE
    /\ dotenvVars = NoEnvVars
    /\ \E exists \in BOOLEAN, content \in Contents :
          /\ ~exists => content = << >>
          /\ fileExists = [f \in DataFiles |-> f = CATEGORIES /\ exists]
          /\ fileContent = [f \in DataFiles |-> IF f = CATEGORIES THEN content ELSE << >>]
    /\ dataSets = << >>
    /\ verifyFlag = TRUE
    /\ clearFlag = TRUE

LoadJson ==
    /\ pc = "json_start"
    /\ loaded' = << load_json_file(fileExists[CATEGORIES], fileContent[CATEGORIES]) >>
    /\ pc' = "json_done"
    /\ UNCHANGED << world, config, seedArgs, seedLocals, hasClient, client, constructions,
                    getCalls, remote, exitCode, errorLine, entry, ret >>

NextJson == LoadJson

SpecJson == InitJson /\ [][NextJson]_vars

(***************************************************************************)
(* Properties                                                              *)
(***************************************************************************)
IsMutation(r) == r.op \in {"delete", "insert"}
IsProbeOk(r) == r.op = "select" /\ r.limit = VERIFY_LIMIT /\ r.ok

\* C1: when test_connection returns false the run has returned normally and
\* no delete or insert was sent; every delete and insert in the request
\* history comes after a successful probe select (SpecSeed).
C1_ProbeGuardsMutations ==
    /\ report.aborted =>
          /\ pc \in {"seed_done", "exited"}
          /\ pc = "exited" => exitCode = 0
          /\ \A k \in 1..Len(remote) : ~IsMutation(remote[k])
    /\ \A k \in 1..Len(remote) :
          IsMutation(remote[k]) => \E j \in 1..(k - 1) : IsProbeOk(remote[j])

\* a run whose probe select raised: aborted with that select as only request
C1_Witness ==
    /\ report.aborted
    /\ pc = "seed_done"
    /\ Len(remote) = 1
    /\ remote[1].op = "select" /\ ~remote[1].ok

\* C2: in the main entry point, once validation has run with a credential
\* variable missing or empty, the process has exited with code 1 after the
\* configuration error, no client object or connection was constructed and
\* no request was sent (Spec).
C2_MissingCredentialAborts ==
    (entry = "main" /\ pc /= "start" /\ \E v \in EnvVars : osEnv[v] \in {Unset, ""}) =>
        /\ pc = "exited"
        /\ exitCode = 1
        /\ errorLine = "config"
        /\ ~hasClient
        /\ constructions = << >>
        /\ remote = << >>

\* main exited on an empty API_Key while SUPABASE_URL was set
C2_Witness ==
    /\ entry = "main"
    /\ pc = "exited"
    /\ exitCode = 1
    /\ osEnv["SUPABASE_URL"] = "v"
    /\ osEnv["API_Key"] = ""

\* C3: after clear_tables(table_names) with table_names = menu_items and
\* categories in either order and no deletion_order, a delete on categories
\* is only ever issued after a delete on menu_items (SpecClear).
C3_MenuItemsClearedFirst ==
    ( /\ ret.method = "clear_tables"
      /\ ret.deletion_order.none
      /\ ret.table_names \in {PyList(<< MENU_ITEMS, CATEGORIES >>),
                              PyList(<< CATEGORIES, MENU_ITEMS >>)} ) =>
        \A k \in 1..Len(remote) :
            (remote[k].op = "delete" /\ remote[k].table = CATEGORIES) =>
                \E j \in 1..(k - 1) :
                    remote[j].op = "delete" /\ remote[j].table = MENU_ITEMS

\* C4: after a clear_tables call that obtained the connection, a delete was
\* issued for every table of the deletion order that is among table_names,
\* whether or not an earlier delete raised (SpecClear).
C4_ClearContinuesAfterError ==
    (ret.method = "clear_tables" /\ client /= NoClient) =>
        LET order == ClearOrder(ret.table_names, ret.deletion_order)
            wanted == {k \in 1..Len(order) :
                          ret.table_names.none \/ InSeq(order[k], ret.table_names.list)}
        IN  Len(remote) = Cardinality(wanted)

IsInsert(r) == r.op = "insert"
InsertsSent == SelectSeq(remote, IsInsert)

\* C5: after a passed connection test, the inserts sent so far are exactly
\* one per data set already processed, in data-set order and each carrying
\* that data set's records; once the loop is over every data set has had its
\* insert sent, whatever the earlier inserts returned (SpecSeed).
C5_OneInsertPerTaskInOrder ==
    (pc \in {"seed_insert", "seed_verify", "seed_outcome", "seed_done"} /\ ~report.aborted) =>
        /\ Len(InsertsSent) = idx - 1
        /\ Len(results) = idx - 1
        /\ \A k \in 1..Len(InsertsSent) :
              /\ InsertsSent[k].table = dataSets[k].table_name
              /\ InsertsSent[k].n = PyLen(dataSets[k].data)
        /\ pc /= "seed_insert" => Len(InsertsSent) = Len(dataSets)

\* a finished run of two tasks whose first insert failed and second succeeded
C5_Witness ==
    /\ pc = "seed_done"
    /\ ~report.aborted
    /\ Len(dataSets) = 2
    /\ results = << FALSE, TRUE >>
    /\ Len(InsertsSent) = 2

Succeeded == {k \in 1..Len(results) : results[k]}

RECURSIVE SumRecords(_, _)
SumRecords(data_sets, ks) ==
    IF ks = {} THEN 0
    ELSE LET k == CHOOSE x \in ks : TRUE IN
         PyLen(data_sets[k].data) + SumRecords(data_sets, ks \ {k})

\* C6: when run_seeding has finished without aborting, the reported counts
\* are: attempted = number of data sets, succeeded = number of inserts that
\* returned a result, records = sum of the record counts of those data sets;
\* the outcome is "completed" iff succeeded = attempted and otherwise
\* "failed" with attempted - succeeded failures (SpecSeed).
C6_ReportedCounts ==
    (pc = "seed_done" /\ ~report.aborted) =>
        /\ report.summary
        /\ report.total = Len(dataSets)
        /\ report.success = Cardinality(Succeeded)
        /\ \A k \in 1..Len(InsertsSent) : InsertsSent[k].ok <=> k \in Succeeded
        /\ 0 <= report.success /\ report.success <= report.total
        /\ report.records = SumRecords(dataSets, Succeeded)
        /\ (report.outcome = "completed") <=> (report.success = report.total)
        /\ report.outcome /= "completed" =>
              /\ report.outcome = "failed"
              /\ report.failed_count = report.total - report.success

\* a partial failure: two tasks, one insert failed
C6_Witness ==
    /\ pc = "seed_done"
    /\ report.outcome = "failed"
    /\ report.total = 2
    /\ report.success = 1
    /\ report.failed_count = 1
    /\ report.records > 0

\* C7: in the main entry point, once validation has run with a required data
\* file missing, validation has reported the configuration invalid; with
\* both credentials and both data files present it has passed, with or
\* without a .env file (Spec).
C7_MissingDataFileInvalid ==
    (entry = "main" /\ pc /= "start") =>
        /\ (\E f \in DataFiles : ~fileExists[f]) => errorLine = "config"
        /\ ( /\ \A v \in EnvVars : osEnv[v] \notin {Unset, ""}
              /\ \A f \in DataFiles : fileExists[f] ) => errorLine /= "config"

(***************************************************************************)
(* The JSON documents of at most MaxLen tokens, built from the grammar     *)
(*   value ::= 1 | n | { } | [ ] | [ value {, value} ]                     *)
(* each with its type and, for an array, its number of top-level elements  *)
(***************************************************************************)
Doc(tokens, t, n) == [doc |-> tokens, t |-> t, n |-> n]
AtomDocs == { Doc(<< "1" >>, "num", 0), Doc(<< "n" >>, "null", 0),
              Doc(<< "{", "}" >>, "obj", 0), Doc(<< "[", "]" >>, "arr", 0) }

RECURSIVE JoinDocs(_, _)
JoinDocs(l, k) ==
    IF k > Len(l) THEN << >>
    ELSE IF k = Len(l) THEN l[k].doc
    ELSE l[k].doc \o << "," >> \o JoinDocs(l, k + 1)

RECURSIVE DocsOfDepth(_)
DocsOfDepth(d) ==
    IF d = 0 THEN AtomDocs
    ELSE LET V == {v \in DocsOfDepth(d - 1) : Len(v.doc) <= MaxLen - 2}
             lists == UNION {[1..k -> V] : k \in 1..((MaxLen - 1) \div 2)}
             arrays == {Doc(<< "[" >> \o JoinDocs(l, 1) \o << "]" >>, "arr", Len(l)) : l \in lists}
         IN  AtomDocs \cup {a \in arrays : Len(a.doc) <= MaxLen}

ValidDocs == DocsOfDepth(MaxLen \div 2)
IsValidDoc(c) == \E v \in ValidDocs : v.doc = c
DocOf(c) == CHOOSE v \in ValidDocs : v.doc = c

C9_ConstructedAtMostOnce ==
    /\ Cardinality({k \in 1..Len(constructions) : constructions[k].result = "ok"}) <= 1
    /\ client /= NoClient =>
          /\ client = Len(constructions)
          /\ constructions[client].result = "ok"

\* a cached connection that served a later call than the one that built it
C9_Witness ==
    /\ client /= NoClient
    /\ getCalls > constructions[client].call
    /\ Len(remote) >= 2

AttemptsOf(call) == {k \in 1..Len(constructions) : constructions[k].call = call}

\* C10: within one get_client call, a reduced-configuration attempt is made
\* exactly when the primary attempt of that call failed with a proxy error,
\* a failed reduced attempt is not followed by another attempt of that call
\* and leaves no connection cached, a non-proxy primary failure is the only
\* attempt of its call, and no call makes more than two attempts
\* (SpecClient).
C10_SingleFallback ==
    /\ \A k \in 1..Len(constructions) :
        LET c == constructions[k] IN
        /\ c.opts = "reduced" =>
              /\ k > 1
              /\ constructions[k - 1].call = c.call
              /\ constructions[k - 1].opts = "primary"
              /\ constructions[k - 1].result = "proxy"
        /\ (c.opts = "primary" /\ c.result = "proxy") =>
              /\ k < Len(constructions)
              /\ constructions[k + 1].call = c.call
              /\ constructions[k + 1].opts = "reduced"
        /\ (c.opts = "primary" /\ c.result = "other") => AttemptsOf(c.call) = {k}
        /\ Cardinality(AttemptsOf(c.call)) <= 2
        /\ c.result /= "ok" => client /= k
    /\ (constructions /= << >> /\ constructions[Len(constructions)].result /= "ok") =>
          client = NoClient

\* a call whose reduced attempt failed too: nothing cached
C10_Witness ==
    /\ client = NoClient
    /\ \E k \in 1..Len(constructions) :
          constructions[k].opts = "reduced" /\ constructions[k].result /= "ok"

LabelOf(row) == IF row.has THEN row.category ELSE "Unknown"
RowsLabelled(rows, label) == {k \in 1..Len(rows) : LabelOf(rows[k]) = label}
FirstRow(rows, label) ==
    CHOOSE k \in RowsLabelled(rows, label) : \A j \in RowsLabelled(rows, label) : k <= j

RECURSIVE SumCounts(_, _)
SumCounts(b, k) == IF k > Len(b) THEN 0 ELSE b[k].count + SumCounts(b, k + 1)

\* a breakdown of the given rows: one entry per label present, a row without
\* category under "Unknown", each entry counting the rows of its label,
\* entries in the order in which the labels first appear
IsBreakdownOf(b, rows) ==
    /\ \A i, j \in 1..Len(b) : i /= j => b[i].category /= b[j].category
    /\ \A k \in 1..Len(rows) : \E i \in 1..Len(b) : b[i].category = LabelOf(rows[k])
    /\ \A i \in 1..Len(b) :
          /\ RowsLabelled(rows, b[i].category) /= {}
          /\ b[i].count = Cardinality(RowsLabelled(rows, b[i].category))
    /\ \A i, j \in 1..Len(b) :
          i < j => FirstRow(rows, b[i].category) < FirstRow(rows, b[j].category)
    /\ SumCounts(b, 1) = Len(rows)

\* C12: after a verify_data call in which every select succeeded, one full
\* select per requested table was sent in order, the returned mapping has
\* exactly the requested tables as keys and maps each to the number of rows
\* its select returned; with the breakdown enabled one breakdown of the
\* menu_items rows is reported per menu_items entry of the request: rows
\* without category under Unknown, counts summing to the row count, labels in
\* first-seen order (SpecVerify).
C12_VerifyData ==
    (ret.method = "verify_data" /\ ret.value) =>
        LET names == IF ret.table_names.none THEN << CATEGORIES, MENU_ITEMS >>
                     ELSE ret.table_names.list
            rowCount(t) == IF t = MENU_ITEMS THEN Len(ret.menu_rows) ELSE ret.other_rows
        IN  /\ Len(remote) = Len(names)
            /\ \A k \in 1..Len(names) :
                  /\ remote[k].op = "select" /\ remote[k].limit = 0 /\ remote[k].ok
                  /\ remote[k].table = names[k]
            /\ DOMAIN ret.counts = {names[k] : k \in 1..Len(names)}
            /\ \A t \in DOMAIN ret.counts : ret.counts[t] = rowCount(t)
            /\ Len(ret.breakdowns) =
                  (IF ret.show
                   THEN Cardinality({k \in 1..Len(names) : names[k] = MENU_ITEMS})
                   ELSE 0)
            /\ \A i \in 1..Len(ret.breakdowns) :
                  IsBreakdownOf(ret.breakdowns[i], ret.menu_rows)

\* menu_items returned a row without category, then a Bread row
C12_Witness ==
    /\ ret.method = "verify_data"
    /\ ret.value
    /\ ret.table_names = PyList(<< CATEGORIES, MENU_ITEMS >>)
    /\ ret.menu_rows = << Row(FALSE, ""), Row(TRUE, "Bread") >>
    /\ ret.counts[MENU_ITEMS] = 2
    /\ ret.breakdowns = << << [category |-> "Unknown", count |-> 1],
                              [category |-> "Bread", count |-> 1] >> >>

\* C13: when the main entry point has ended, the exit code is 1 and an error
\* line was printed in each of: a credential missing or empty (configuration
\* error line), a data file missing (file-not-found line when it is the
\* first file to fail), a data file that is not valid JSON (JSON line when
\* it is the first to fail), any other exception; in either entry point the
\* exit code is 0 or 1, it is 1 exactly when an error line was printed, and
\* it is 0 when the run completed with every task succeeded (Spec).
C13_FailuresExitNonZero ==
    pc = "exited" =>
        LET Malformed(f) == /\ fileExists[f]
                            /\ Len(fileContent[f]) <= MaxLen
                            /\ ~IsValidDoc(fileContent[f])
        IN
        /\ exitCode \in {0, 1}
        /\ exitCode = 1 <=> errorLine /= "none"
        /\ report.outcome = "completed" => exitCode = 0
        /\ entry = "main" =>
              IF \E v \in EnvVars : osEnv[v] \in {Unset, ""}
              THEN errorLine = "config"
              ELSE /\ (\E f \in DataFiles : ~fileExists[f] \/ Malformed(f))
                         => errorLine \in {"file_not_found", "json", "unexpected"}
                   /\ ~fileExists[CATEGORIES] => errorLine = "file_not_found"
                   /\ Malformed(CATEGORIES) => errorLine = "json"
                   /\ ( /\ fileExists[CATEGORIES]
                        /\ fileContent[CATEGORIES] = << "[", "]" >>
                        /\ ~fileExists[MENU_ITEMS] ) => errorLine = "file_not_found"
                   /\ ( /\ fileExists[CATEGORIES]
                        /\ fileContent[CATEGORIES] = << "[", "]" >>
                        /\ Malformed(MENU_ITEMS) ) => errorLine = "json"
                   /\ (\E f \in DataFiles : fileContent[f] = << "1" >>) => exitCode = 1
        /\ (entry = "bread" /\ \E v \in EnvVars : osEnv[v] \in {Unset, ""}) =>
              errorLine = "bread_error"

\* main ended with the JSON error line on a malformed menu_items file
C13_Witness ==
    /\ pc = "exited"
    /\ entry = "main"
    /\ exitCode = 1
    /\ errorLine = "json"
    /\ fileContent[CATEGORIES] = << "[", "{", "}", "]" >>
    /\ fileContent[MENU_ITEMS] = << "[", "1" >>
    /\ remote = << >>

\* position of a request in the order of the steps of run_seeding
StepOf(r) ==
    IF r.op = "select" /\ r.limit = VERIFY_LIMIT THEN 1
    ELSE IF r.op = "delete" THEN 2
    ELSE IF r.op = "insert" THEN 3
    ELSE 4
IsVerifySelect(r) == r.op = "select" /\ r.limit = 0
VerifySelects == SelectSeq(remote, IsVerifySelect)

\* C14 as stated: the requests follow the order probe select, deletes,
\* inserts, verify selects, and every verify select was issued before the
\* summary counts were reported (SpecSeed).
C14_VerifyBeforeSummary ==
    /\ \A i, j \in 1..Len(remote) : i < j => StepOf(remote[i]) <= StepOf(remote[j])
    /\ \A k \in 1..Len(remote) :
          IsVerifySelect(remote[k]) => (report.summary => k <= report.at)
    /\ pc = "seed_verify" => ~report.summary

\* C14 amended: the requests follow the order probe select, deletes, inserts,
\* verify selects; deletes are only sent when clearing is enabled; the
\* summary counts are reported after the last insert and before the first
\* verify select; the final outcome line is reported after the verify
\* selects; no step is entered again (SpecSeed).
C14_LinearOrder ==
    /\ \A i, j \in 1..Len(remote) : i < j => StepOf(remote[i]) <= StepOf(remote[j])
    /\ \A k \in 1..Len(remote) :
          /\ StepOf(remote[k]) = 1 => k = 1
          /\ remote[k].op = "delete" => clearFlag
          /\ IsVerifySelect(remote[k]) => (verifyFlag /\ report.summary /\ k > report.at)
          /\ (report.summary /\ ~IsVerifySelect(remote[k])) => k <= report.at
    /\ pc \in {"seed_init", "seed_test", "seed_clear", "seed_insert"} =>
          (~report.summary /\ report.outcome = "none")
    /\ pc = "seed_verify" =>
          (report.summary /\ report.outcome = "none" /\ report.at = Len(remote))
    /\ pc = "seed_outcome" => (report.summary /\ report.outcome = "none")
    /\ report.outcome /= "none" => (report.summary /\ pc = "seed_done")

\* a finished run with clear and verify: delete, insert, summary, then select
C14_Witness ==
    /\ pc = "seed_done"
    /\ report.outcome = "completed"
    /\ Len(remote) = 4
    /\ remote[2].op = "delete"
    /\ remote[3].op = "insert"
    /\ report.at = 3
    /\ IsVerifySelect(remote[4])

\* C15: every delete sent by clear_tables uses the registered condition of
\* its table (menu_items: id neq 'nonexistent'; categories: id gte 0) and,
\* for a table without one, id neq 'nonexistent' (SpecClear).
C15_RegisteredCondition ==
    \A k \in 1..Len(remote) :
        remote[k].op = "delete" =>
            /\ remote[k].col = "id"
            /\ IF remote[k].table = CATEGORIES
               THEN remote[k].cmp = "gte" /\ remote[k].val = "0"
               ELSE remote[k].cmp = "neq" /\ remote[k].val = "'nonexistent'"

AllSucceeded == \A k \in 1..Len(results) : results[k]

\* C17: a verify_data call of run_seeding returns to run_seeding; when one
\* of its selects raised, that select is the last request sent, the selects
\* before it succeeded, and the returned mapping is empty; the final outcome
\* and counts of a finished run follow from the insert results alone,
\* whether verify_data succeeded, failed or was not called (SpecSeed).
C17_VerifyFailureIgnored ==
    /\ ret.method = "verify_data" =>
          /\ pc \in {"seed_outcome", "seed_done"}
          /\ ~ret.value =>
                /\ ret.counts = << >>
                /\ remote /= << >>
                /\ IsVerifySelect(remote[Len(remote)]) /\ ~remote[Len(remote)].ok
                /\ \A k \in 1..(Len(VerifySelects) - 1) : VerifySelects[k].ok
                /\ \A k \in 1..Len(VerifySelects) :
                      VerifySelects[k].table = dataSets[k].table_name
          /\ ret.value => DOMAIN ret.counts = TableSetOf(dataSets)
    /\ (pc = "seed_done" /\ ~report.aborted) =>
          /\ report.outcome = (IF AllSucceeded /\ Len(results) = Len(dataSets)
                               THEN "completed" ELSE "failed")
          /\ report.success = Cardinality({k \in 1..Len(results) : results[k]})
          /\ report.total = Len(dataSets)

\* both inserts succeeded, the second verify select raised: still completed
C17_Witness ==
    /\ pc = "seed_done"
    /\ results = << TRUE, TRUE >>
    /\ ret.method = "verify_data"
    /\ ~ret.value
    /\ ret.counts = << >>
    /\ Len(VerifySelects) = 2
    /\ VerifySelects[1].ok /\ ~VerifySelects[2].ok
    /\ report.outcome = "completed"

\* C18: once the client object was created, an entry point that has ended
\* has exit code 0 and printed no error line: after a failed connection
\* test, after some or all inserts failed, and after full success (Spec).
C18_ExitCodeIgnoresOutcome ==
    (pc = "exited" /\ hasClient) =>
        /\ exitCode = 0
        /\ errorLine = "none"
        /\ report.aborted \/ report.outcome \in {"completed", "failed"}

\* main ended with code 0 although both inserts failed
C18_Witness ==
    /\ pc = "exited"
    /\ entry = "main"
    /\ hasClient
    /\ results = << FALSE, FALSE >>
    /\ report.outcome = "failed"
    /\ report.failed_count = 2
    /\ exitCode = 0

====
